---- MODULE Spec2Model ----
(***************************************************************************)
(* PLC logger (src/src/main.rs): a UDP listener thread spawns one handler  *)
(* thread per datagram; handlers decode the payload and send it over an    *)
(* mpsc channel to the main thread, which logs through log4rs (console +   *)
(* size-triggered, fixed-window rolling file "plc.log").                   *)
(*                                                                         *)
(* The log4rs / log / std semantics the program relies on are modelled at  *)
(* the call sites that configure or invoke them:                           *)
(*   - log4rs::init_config installs the process-wide logger with           *)
(*     log::set_boxed_logger, which fails with SetLoggerError once a       *)
(*     logger is installed;                                                *)
(*   - RollingFileAppender::append writes the encoded record, then asks    *)
(*     the CompoundPolicy; SizeTrigger fires when the file length is       *)
(*     strictly greater than the limit; FixedWindowRoller shifts           *)
(*     archives base..base+count-1 up by one and compresses the active     *)
(*     file to index base (count = 0: the active file is removed);         *)
(*   - a panic in a spawned thread ends that thread only; a panic in main  *)
(*     drops the receiver while unwinding and ends the process with        *)
(*     status 101; process::exit ends the whole process at once.           *)
(*                                                                         *)
(* Byte counts are scaled (see MbBytes, BufSize, PrefixLen, MsgLen).       *)
(***************************************************************************)
EXTENDS Integers, Sequences, FiniteSets, TLC

\* ------------------------------------------------------------------ bounds
\* number of datagrams the socket delivers in a run
MaxDatagrams == 2
\* number of failing recv_from calls in a run
MaxRecvErrors == 1
\* bytes per configured megabyte (byte_unit::n_mb_bytes!, scaled down)
MbBytes == 6
\* size of the receive buffer (1500 in the program, scaled down)
BufSize == 3

\* ------------------------------------------------------------------ inputs
\* datagram payloads: "e-acute" (a 2-byte UTF-8 sequence), and a byte that
\* is never valid in UTF-8
Payloads == { <<195, 169>>, <<255>> }
Sources == { "10.0.0.7:2000" }

\* a key of config.toml: <<>> when the key is missing, <<v>> when it holds v
Key(S) == { <<>> } \cup { <<v>> : v \in S }

ConfigToml(ports, sizes, hists) ==
    [ exists : {TRUE},
      listening_port : Key(ports),
      log_max_size_mb : Key(sizes),
      log_history_to_keep : Key(hists) ]

NoConfigToml ==
    [ exists |-> FALSE, listening_port |-> <<>>, log_max_size_mb |-> <<>>,
      log_history_to_keep |-> <<>> ]

\* configurations of the pipeline runs: the spec's scenario (port 9999, 1 MB)
\* with retention 0 and 2, and startup failures
RunConfigs ==
    ConfigToml({9999}, {1}, {0, 2}) \cup ConfigToml({9999}, {0}, {2})
        \cup { NoConfigToml }

\* configurations around every range boundary of app_config
BoundaryConfigs ==
    ConfigToml({-1, 0, 65535, 65536}, {0, 1, 100, 101}, {-1, 0, 1000, 1001})
        \cup { NoConfigToml }

VARIABLES
    cfg,        \* contents of config.toml
    proc,       \* "running" | "exited"
    exitCode,   \* exit status once proc = "exited"
    pcMain,     \* main thread: "start" | "consume" | "setup" | "panicking" |
                \* "panicked" | "last_log" | "returning" | "returned"
    logger,     \* pattern of the installed global logger, or NoLogger
    sink,       \* the rolling file appender's files (see below)
    lpc,        \* listener thread position
    nRecvErr,   \* number of recv_from errors so far
    handlers,   \* one record per spawned handler thread
    pending,    \* lines written to stdout whose write to plc.log is still to come
    queue,      \* mpsc channel contents
    rxAlive,    \* the Receiver has not been dropped
    delivered,  \* messages the consumer loop took from the channel
    msgLines    \* payload texts logged by the consumer loop

vars == << cfg, proc, exitCode, pcMain, logger, sink, lpc, nRecvErr, handlers,
           pending, queue, rxAlive, delivered, msgLines >>

\* plc.log: the encoded lines of the active file
file == sink.file
\* history/plclog_{i}.gz, i = RollerBase + position - 1, by roll number
archives == sink.archives
\* number of rolls performed
rotations == sink.rotations
\* the line of the most recent append
lastLine == sink.lastLine
\* number of lines appended to plc.log so far
nAppends == sink.nAppends

sinkVars == << sink, pending >>

\* ------------------------------------------------------------- app_config
Ok(v) == [ok |-> TRUE, val |-> v]
Err(e) == [ok |-> FALSE, err |-> e]

get_int(c, k) == IF Len(c[k]) = 0 THEN Err("missing key") ELSE Ok(c[k][1])

\* app_config with the upper limit of the history check off by one
app_config_HistoryOffByOne(c) ==
    IF ~c.exists THEN Err("config.toml not found")
    ELSE LET listening_port == get_int(c, "listening_port")
             log_max_size_mb == get_int(c, "log_max_size_mb")
             log_history_to_keep == get_int(c, "log_history_to_keep")
         IN  IF ~listening_port.ok THEN listening_port
             ELSE IF ~log_max_size_mb.ok THEN log_max_size_mb
             ELSE IF ~log_history_to_keep.ok THEN log_history_to_keep
             ELSE IF (listening_port.val < 0) \/ (listening_port.val > 65535)
                  THEN Err("listening port must be between 0 - 65535")
             ELSE IF (log_max_size_mb.val < 1) \/ (log_max_size_mb.val > 100)
                  THEN Err("max log size must be between 1 - 100 (mb)")
             ELSE IF (log_history_to_keep.val < 0) \/ (log_history_to_keep.val > 1001)
                  THEN Err("log history must be between 0 - 1000")
             ELSE Ok([ listening_port |-> listening_port.val,
                       log_max_size_mb |-> log_max_size_mb.val,
                       log_history_to_keep |-> log_history_to_keep.val ])

app_config(c) ==
    IF ~c.exists THEN Err("config.toml not found")
    ELSE LET listening_port == get_int(c, "listening_port")
             log_max_size_mb == get_int(c, "log_max_size_mb")
             log_history_to_keep == get_int(c, "log_history_to_keep")
         IN  IF ~listening_port.ok THEN listening_port
             ELSE IF ~log_max_size_mb.ok THEN log_max_size_mb
             ELSE IF ~log_history_to_keep.ok THEN log_history_to_keep
             ELSE IF (listening_port.val < 0) \/ (listening_port.val > 65535)
                  THEN Err("listening port must be between 0 - 65535")
             ELSE IF (log_max_size_mb.val < 1) \/ (log_max_size_mb.val > 100)
                  THEN Err("max log size must be between 1 - 100 (mb)")
             ELSE IF (log_history_to_keep.val < 0) \/ (log_history_to_keep.val > 1000)
                  THEN Err("log history must be between 0 - 1000")
             ELSE Ok([ listening_port |-> listening_port.val,
                       log_max_size_mb |-> log_max_size_mb.val,
                       log_history_to_keep |-> log_history_to_keep.val ])

\* the AppConfig main holds after startup
appconfig == app_config(cfg).val

\* ------------------------------------------------------------ logger_config
NoLogger == "none"
LOG_PATTERN == "{d(%Y-%m-%d %H:%M:%S%.6f)} | {({l}):5.5} | {m}{n}"
LOG_PATTERN_PLC == "{m}{n}"

trigger_size == appconfig.log_max_size_mb * MbBytes
roller_count == appconfig.log_history_to_keep
RollerBase == 1

\* SizeTrigger::trigger
SizeTriggerFires_AtLimit(len, limit) == len >= limit
SizeTriggerFires(len, limit) == len > limit

\* FixedWindowRoller::roll: the archives after rolling active file `gen`
Min(a, b) == IF a < b THEN a ELSE b
FixedWindowRoll_ZeroKeepsOne(arch, gen, count) ==
    SubSeq(<<gen>> \o arch, 1, Min(IF count = 0 THEN 1 ELSE count, Len(arch) + 1))
FixedWindowRoll_KeepsOneMore(arch, gen, count) ==
    SubSeq(<<gen>> \o arch, 1, Min(count + 1, Len(arch) + 1))
FixedWindowRoll(arch, gen, count) ==
    IF count = 0 THEN arch
    ELSE SubSeq(<<gen>> \o arch, 1, Min(count, Len(arch) + 1))

\* a log record and its encoding by PatternEncoder (lengths in scaled bytes)
Record(by, hid, level, kind, text) ==
    [by |-> by, hid |-> hid, level |-> level, kind |-> kind, text |-> text]

Encode(pattern, rec) ==
    [by |-> rec.by, hid |-> rec.hid, level |-> rec.level, kind |-> rec.kind,
     text |-> rec.text, pat |-> pattern]

PrefixLen(pattern) == IF pattern = LOG_PATTERN THEN 1 ELSE 0
MsgLen(line) ==
    IF line.kind = "payload" THEN Len(line.text)
    ELSE IF line.level = "ERROR" THEN 2 ELSE 1
EncodedLen(line) == PrefixLen(line.pat) + MsgLen(line) + 1

RECURSIVE FileLen(_)
FileLen(f) == IF f = <<>> THEN 0 ELSE EncodedLen(Head(f)) + FileLen(Tail(f))

\* RollingFileAppender::append on the sink state s
RollingAppend(s, line) ==
    LET written == Append(s.file, line)
    IN  IF SizeTriggerFires(FileLen(written), trigger_size)
        THEN [ file |-> <<>>,
               archives |-> FixedWindowRoll(s.archives, s.rotations + 1, roller_count),
               rotations |-> s.rotations + 1,
               lastLine |-> line, nAppends |-> s.nAppends + 1 ]
        ELSE [ file |-> written, archives |-> s.archives,
               rotations |-> s.rotations,
               lastLine |-> line, nAppends |-> s.nAppends + 1 ]

\* info!/error! under the logger `lg`: the records `recs`, in order
RECURSIVE LogAll(_, _, _)
LogAll(s, lg, recs) ==
    IF recs = <<>> \/ lg = NoLogger THEN s
    ELSE LogAll(RollingAppend(s, Encode(lg, Head(recs))), lg, Tail(recs))

\* a thread's log calls made with no step of another thread between their
\* two appenders
Log(lg, recs) == sink' = LogAll(sink, lg, recs) /\ pending' = pending

\* Logger::log, first appender of the root logger ("stdout"): the thread by/hid
\* is inside its log call until the second appender has written
Busy(by, hid) == \E k \in 1..Len(pending) : pending[k].by = by /\ pending[k].hid = hid
ConsoleAppend(lg, rec) ==
    /\ pending' = IF lg = NoLogger THEN pending ELSE Append(pending, Encode(lg, rec))
    /\ sink' = sink

\* log4rs::init_config(...) succeeds only while no global logger is installed
init_config_ok(lg) == lg = NoLogger

\* logger_config(log_pattern, appconfig): the configuration, or the panic of
\* one of its unwraps. The roller's pattern (line 104) and the appender names
\* (line 128) are fixed texts that build; RollingFileAppender's
\* build("plc.log", ..).unwrap() (line 112) panics when plc.log cannot be
\* opened, which the environment decides at each call.
logger_config(log_pattern, openable) ==
    IF openable THEN Ok(log_pattern) ELSE Err("io")

\* logger_setup(appconfig, log_pattern) with global logger lg: the logger
\* afterwards, and whether logger_config or init_config(config).unwrap()
\* panicked
logger_setup(lg, log_pattern, openable) ==
    IF logger_config(log_pattern, openable).ok /\ init_config_ok(lg)
    THEN [panicked |-> FALSE, logger |-> logger_config(log_pattern, openable).val]
    ELSE [panicked |-> TRUE, logger |-> lg]

\* ---------------------------------------------------------------- from_utf8
Cont(b) == b >= 128 /\ b <= 191

RECURSIVE Utf8Valid(_)
Utf8Valid(bs) ==
    IF bs = <<>> THEN TRUE
    ELSE LET b == bs[1]
             n == Len(bs)
         IN  IF b <= 127 THEN Utf8Valid(Tail(bs))
             ELSE IF b >= 194 /\ b <= 223
                  THEN n >= 2 /\ Cont(bs[2]) /\ Utf8Valid(SubSeq(bs, 3, n))
             ELSE IF b >= 224 /\ b <= 239
                  THEN /\ n >= 3
                       /\ Cont(bs[2]) /\ Cont(bs[3])
                       /\ (b = 224 => bs[2] >= 160)
                       /\ (b = 237 => bs[2] <= 159)
                       /\ Utf8Valid(SubSeq(bs, 4, n))
             ELSE IF b >= 240 /\ b <= 244
                  THEN /\ n >= 4
                       /\ Cont(bs[2]) /\ Cont(bs[3]) /\ Cont(bs[4])
                       /\ (b = 240 => bs[2] >= 144)
                       /\ (b = 244 => bs[2] <= 143)
                       /\ Utf8Valid(SubSeq(bs, 5, n))
             ELSE FALSE

from_utf8(bs) == IF Utf8Valid(bs) THEN Ok(bs) ELSE Err("Utf8Error")

\* let mut buf = [0u8; 1500] filled by recv_from with payload p
RecvInto(p) == [i \in 1..BufSize |-> IF i <= Len(p) THEN p[i] ELSE 0]

\* &mut buf[..amt]
Slice(buf, amt) == SubSeq(buf, 1, amt)

\* ------------------------------------------------------------------- Init
InitWith(configs) ==
    /\ cfg \in configs
    /\ proc = "running"
    /\ exitCode = 0
    /\ pcMain = "start"
    /\ logger = NoLogger
    /\ sink = [ file |-> <<>>, archives |-> <<>>, rotations |-> 0,
                lastLine |-> Encode(NoLogger, Record("none", 0, "INFO", "none", <<>>)),
                nAppends |-> 0 ]
    /\ lpc = "unspawned"
    /\ nRecvErr = 0
    /\ handlers = <<>>
    /\ pending = <<>>
    /\ queue = <<>>
    /\ rxAlive = TRUE
    /\ delivered = <<>>
    /\ msgLines = <<>>

Init == InitWith(RunConfigs)

\* process::exit(code)
Exit(code) == proc' = "exited" /\ exitCode' = code

Running == proc = "running"

\* ---------------------------------------------------------------- main
\* main, lines 139-160: read the configuration, set up the logger, log the
\* banner, create the channel and spawn the listener thread
MainStart ==
    /\ Running /\ pcMain = "start"
    /\ IF ~app_config(cfg).ok
       THEN \* unwrap_or_else: println!("{err}"); process::exit(1)
            /\ \/ /\ Exit(1)
                  /\ UNCHANGED << pcMain, rxAlive >>
               \/ \* println! panics: stdout cannot be written
                  /\ pcMain' = "panicked"
                  /\ rxAlive' = FALSE
                  /\ UNCHANGED << proc, exitCode >>
            /\ UNCHANGED << logger, lpc, sinkVars >>
       ELSE \E openable \in BOOLEAN :
            IF ~logger_setup(logger, LOG_PATTERN, openable).panicked
            THEN /\ logger' = logger_setup(logger, LOG_PATTERN, openable).logger
                 /\ Log(logger', << Record("main", 0, "INFO", "starting_up", <<>>) >>)
                 /\ \/ /\ pcMain' = "consume"
                       /\ lpc' = "bind"
                       /\ UNCHANGED rxAlive
                    \/ \* thread::spawn panics: the OS refuses the listener thread
                       /\ pcMain' = "panicked"
                       /\ rxAlive' = FALSE
                       /\ UNCHANGED lpc
                 /\ UNCHANGED << proc, exitCode >>
            ELSE \* logger_setup panics in logger_config or on init_config
                 /\ pcMain' = "panicked"
                 /\ rxAlive' = FALSE
                 /\ UNCHANGED << proc, exitCode, logger, lpc, sinkVars >>
    /\ UNCHANGED << cfg, nRecvErr, handlers, queue, delivered, msgLines >>

\* main, line 200: `for r in rx` takes the next message
Consume ==
    /\ Running /\ pcMain = "consume" /\ ~Busy("main", 0)
    /\ queue # <<>>
    /\ queue' = Tail(queue)
    /\ delivered' = Append(delivered, Head(queue))
    /\ pcMain' = "setup"
    /\ UNCHANGED << cfg, proc, exitCode, logger, sinkVars, lpc, nRecvErr, handlers,
                    rxAlive, msgLines >>

\* main, lines 201-202: logger_setup(&app_config, LOG_PATTERN_PLC) and
\* info!("{r}") for the message r taken last
ConsumeLog ==
    /\ Running /\ pcMain = "setup"
    /\ LET r == delivered[Len(delivered)]
       IN  \E openable \in BOOLEAN :
           IF ~logger_setup(logger, LOG_PATTERN_PLC, openable).panicked
           THEN /\ logger' = logger_setup(logger, LOG_PATTERN_PLC, openable).logger
                /\ ConsoleAppend(logger', Record("main", 0, "INFO", "payload", r.text))
                /\ msgLines' = Append(msgLines, r.text)
                /\ pcMain' = "consume"
           ELSE \* logger_setup panics in logger_config or on init_config
                /\ pcMain' = "panicking"
                /\ UNCHANGED << logger, sinkVars, msgLines >>
    /\ UNCHANGED << cfg, proc, exitCode, lpc, nRecvErr, handlers, queue, rxAlive,
                    delivered >>

\* the panic unwinds main: rx is dropped
MainUnwind ==
    /\ Running /\ pcMain = "panicking"
    /\ rxAlive' = FALSE
    /\ pcMain' = "panicked"
    /\ UNCHANGED << cfg, proc, exitCode, logger, sinkVars, lpc, nRecvErr, handlers,
                    queue, delivered, msgLines >>

\* the main thread has panicked: the runtime ends the process
MainPanicExit ==
    /\ Running /\ pcMain = "panicked"
    /\ Exit(101)
    /\ UNCHANGED << cfg, pcMain, logger, sinkVars, lpc, nRecvErr, handlers,
                    queue, rxAlive, delivered, msgLines >>

\* ------------------------------------------------------------ listener
\* a bind failure that is logged and retried instead of ending the process
ListenerBind_Retry ==
    /\ Running /\ lpc = "bind"
    /\ \/ /\ Log(logger, << Record("listener", 0, "INFO", "listener_start", <<>>) >>)
          /\ lpc' = "clone"
       \/ /\ Log(logger, << Record("listener", 0, "ERROR", "bind_err", <<>>),
                            Record("listener", 0, "ERROR", "bind_hint", <<>>) >>)
          /\ lpc' = "bind"
    /\ UNCHANGED << cfg, proc, exitCode, pcMain, logger, nRecvErr, handlers, queue,
                    rxAlive, delivered, msgLines >>

\* lines 161-167: UdpSocket::bind succeeds, or fails and ends the process
ListenerBind ==
    /\ Running /\ lpc = "bind"
    /\ \/ /\ Log(logger, << Record("listener", 0, "INFO", "listener_start", <<>>) >>)
          /\ lpc' = "clone"
          /\ UNCHANGED << proc, exitCode >>
       \/ /\ Log(logger, << Record("listener", 0, "ERROR", "bind_err", <<>>),
                            Record("listener", 0, "ERROR", "bind_hint", <<>>) >>)
          /\ lpc' = "bind_failed"
          /\ Exit(1)
    /\ UNCHANGED << cfg, pcMain, logger, nRecvErr, handlers, queue, rxAlive,
                    delivered, msgLines >>

\* lines 170-172: tx.clone(), fresh buffer, info!("Cloning socket...")
ListenerClone ==
    /\ Running /\ lpc = "clone" /\ ~Busy("listener", 0)
    /\ ConsoleAppend(logger, Record("listener", 0, "INFO", "cloning", <<>>))
    /\ lpc' = "try_clone"
    /\ UNCHANGED << cfg, proc, exitCode, pcMain, logger, nRecvErr, handlers,
                    queue, rxAlive, delivered, msgLines >>

\* lines 173-175: socket.try_clone() returns Err(err): error!("{err}")
ListenerCloneErr ==
    /\ Running /\ lpc = "try_clone" /\ ~Busy("listener", 0)
    /\ ConsoleAppend(logger, Record("listener", 0, "ERROR", "clone_err", <<>>))
    /\ lpc' = "clone_err"
    /\ UNCHANGED << cfg, proc, exitCode, pcMain, logger, nRecvErr, handlers,
                    queue, rxAlive, delivered, msgLines >>

\* a failed socket.try_clone() that is tried again in the next iteration
\* instead of ending the process
ListenerCloneExit_Transient ==
    /\ Running /\ lpc = "clone_err" /\ ~Busy("listener", 0)
    /\ lpc' = "clone"
    /\ UNCHANGED << cfg, proc, exitCode, pcMain, logger, sinkVars, nRecvErr,
                    handlers, queue, rxAlive, delivered, msgLines >>

\* line 176: process::exit(1) after the error line
ListenerCloneExit ==
    /\ Running /\ lpc = "clone_err" /\ ~Busy("listener", 0)
    /\ lpc' = "clone_failed"
    /\ Exit(1)
    /\ UNCHANGED << cfg, pcMain, logger, sinkVars, nRecvErr, handlers, queue,
                    rxAlive, delivered, msgLines >>

\* lines 173-179: socket.try_clone() returns Ok; info!("Waiting for packet...")
ListenerWait ==
    /\ Running /\ lpc = "try_clone" /\ ~Busy("listener", 0)
    /\ ConsoleAppend(logger, Record("listener", 0, "INFO", "waiting", <<>>))
    /\ lpc' = "recv"
    /\ UNCHANGED << cfg, proc, exitCode, pcMain, logger, nRecvErr, handlers,
                    queue, rxAlive, delivered, msgLines >>

\* a handler thread as thread::spawn creates it
Spawned(src, buf, amt) ==
    [src |-> src, buf |-> buf, amt |-> amt, pc |-> "spawned",
     afterErr |-> nRecvErr > 0]

\* the listener is blocked in sock.recv_from (line 180)
AtRecv_JoinsHandlers ==
    /\ lpc = "recv"
    /\ \A i \in 1..Len(handlers) : handlers[i].pc \notin {"spawned", "decode"}
AtRecv == lpc = "recv"

\* lines 180-192: recv_from returns Ok((amt, src)); thread::spawn starts the
\* handler, or panics when the OS refuses a new thread: the listener thread
\* ends there, with its socket and its Sender
ListenerRecvOk ==
    /\ Running /\ AtRecv /\ ~Busy("listener", 0)
    /\ Len(handlers) < MaxDatagrams
    /\ \/ /\ \E p \in Payloads, src \in Sources :
               handlers' = Append(handlers,
                                  Spawned(src, RecvInto(p), Min(Len(p), BufSize)))
          /\ lpc' = "clone"
       \/ /\ lpc' = "panicked"
          /\ UNCHANGED handlers
    /\ UNCHANGED << cfg, proc, exitCode, pcMain, logger, sinkVars, nRecvErr,
                    queue, rxAlive, delivered, msgLines >>

\* a receive error treated like the bind and clone failures
ListenerRecvErr_Fatal ==
    /\ Running /\ AtRecv /\ ~Busy("listener", 0)
    /\ nRecvErr < MaxRecvErrors
    /\ Log(logger, << Record("listener", 0, "ERROR", "recv_err", <<>>) >>)
    /\ nRecvErr' = nRecvErr + 1
    /\ Exit(1)
    /\ UNCHANGED << cfg, pcMain, logger, lpc, handlers, queue,
                    rxAlive, delivered, msgLines >>

\* lines 193-195: recv_from returns Err(e)
ListenerRecvErr ==
    /\ Running /\ AtRecv /\ ~Busy("listener", 0)
    /\ nRecvErr < MaxRecvErrors
    /\ ConsoleAppend(logger, Record("listener", 0, "ERROR", "recv_err", <<>>))
    /\ nRecvErr' = nRecvErr + 1
    /\ lpc' = "clone"
    /\ UNCHANGED << cfg, proc, exitCode, pcMain, logger, handlers, queue,
                    rxAlive, delivered, msgLines >>

\* ------------------------------------------------------------- handlers
\* the item sent over the channel: the decoded String (line 186)
Message_WithAddress(string_data, src) == [text |-> string_data, src |-> src]
Message(string_data, src) == [text |-> string_data]

\* channel() is unbounded: a send never waits for room (line 152)
ChannelHasRoom_Bounded(q) == Len(q) < 1
ChannelHasRoom(q) == TRUE

\* the channel after a send on it while its Receiver exists
Publish_Twice(q, m) == q \o << m, m >>
Publish(q, m) == Append(q, m)

\* tx_thread.send(m) (line 186): Err(SendError(m)) once the Receiver is dropped
send(q, m, alive) == IF alive THEN Ok(Publish(q, m)) ELSE Err(m)

SetPc(i, pc) == handlers' = [handlers EXCEPT ![i].pc = pc]

\* line 183
HandlerLog(i) ==
    /\ Running /\ handlers[i].pc = "spawned" /\ ~Busy("handler", i)
    /\ ConsoleAppend(logger, Record("handler", i, "INFO", "handling", <<>>))
    /\ SetPc(i, "decode")
    /\ UNCHANGED << cfg, proc, exitCode, pcMain, logger, lpc, nRecvErr, queue,
                    rxAlive, delivered, msgLines >>

\* lines 184-189: slice, from_utf8(..).unwrap(), tx_thread.send(..)
HandlerDecodeSend(i) ==
    /\ Running /\ handlers[i].pc = "decode" /\ ~Busy("handler", i)
    /\ LET string_data == from_utf8(Slice(handlers[i].buf, handlers[i].amt))
       IN  IF ~string_data.ok
           THEN \* unwrap() panics: this thread ends
                /\ SetPc(i, "panicked")
                /\ UNCHANGED << queue, sinkVars >>
           ELSE IF send(queue, Message(string_data.val, handlers[i].src), rxAlive).ok
           THEN /\ ChannelHasRoom(queue)
                /\ queue' = send(queue, Message(string_data.val, handlers[i].src),
                                 rxAlive).val
                /\ SetPc(i, "done")
                /\ UNCHANGED sinkVars
           ELSE \* send returns Err(SendError): error!("{err}")
                /\ ConsoleAppend(logger, Record("handler", i, "ERROR", "send_err", <<>>))
                /\ SetPc(i, "send_failed")
                /\ UNCHANGED queue
    /\ UNCHANGED << cfg, proc, exitCode, pcMain, logger, lpc, nRecvErr, rxAlive,
                    delivered, msgLines >>

\* ------------------------------------------------- main, after the loop
\* handler thread i has ended: its Sender is dropped
HandlerEnded(i) ==
    handlers[i].pc \in {"done", "panicked", "send_failed"} /\ ~Busy("handler", i)

\* every Sender is dropped: the listener's tx and each handler's tx_thread
SendersGone == lpc = "panicked" /\ \A i \in 1..Len(handlers) : HandlerEnded(i)

\* log_handle.set_config(config): the logger afterwards
set_config(lg, log_pattern) == log_pattern

\* main, lines 200 and 212: `for r in rx` ends when the channel is empty and
\* disconnected; log_handle.set_config(logger_config(LOG_PATTERN, ..)), or
\* the panic of logger_config
MainLoopEnd ==
    /\ Running /\ pcMain = "consume" /\ ~Busy("main", 0)
    /\ queue = <<>> /\ SendersGone
    /\ rxAlive' = FALSE
    /\ \E openable \in BOOLEAN :
         IF logger_config(LOG_PATTERN, openable).ok
         THEN /\ logger' = set_config(logger, logger_config(LOG_PATTERN, openable).val)
              /\ pcMain' = "last_log"
         ELSE /\ pcMain' = "panicked"
              /\ UNCHANGED logger
    /\ UNCHANGED << cfg, proc, exitCode, sinkVars, lpc, nRecvErr, handlers, queue,
                    delivered, msgLines >>

\* main, line 213: info!("last log")
MainLastLog ==
    /\ Running /\ pcMain = "last_log"
    /\ ConsoleAppend(logger, Record("main", 0, "INFO", "last_log", <<>>))
    /\ pcMain' = "returning"
    /\ UNCHANGED << cfg, proc, exitCode, logger, lpc, nRecvErr, handlers, queue,
                    rxAlive, delivered, msgLines >>

\* main returns: the process ends with status 0
MainReturn ==
    /\ Running /\ pcMain = "returning" /\ ~Busy("main", 0)
    /\ Exit(0)
    /\ pcMain' = "returned"
    /\ UNCHANGED << cfg, logger, sinkVars, lpc, nRecvErr, handlers, queue,
                    rxAlive, delivered, msgLines >>

\* ------------------------------------------------------------- appenders
RemoveAt(q, k) == SubSeq(q, 1, k - 1) \o SubSeq(q, k + 1, Len(q))

\* Logger::log, second appender of the root logger ("step_ap"): the thread
\* whose line is pending[k] appends it to plc.log and returns from its log call
FileAppend(k) ==
    /\ Running
    /\ sink' = RollingAppend(sink, pending[k])
    /\ pending' = RemoveAt(pending, k)
    /\ UNCHANGED << cfg, proc, exitCode, pcMain, logger, lpc, nRecvErr, handlers,
                    queue, rxAlive, delivered, msgLines >>

ListenerFileAppend ==
    \E k \in 1..Len(pending) : pending[k].by = "listener" /\ FileAppend(k)

Listener ==
    \/ ListenerBind \/ ListenerClone \/ ListenerCloneErr \/ ListenerCloneExit
    \/ ListenerWait \/ ListenerRecvOk \/ ListenerRecvErr \/ ListenerFileAppend

Next ==
    \/ MainStart
    \/ Consume
    \/ ConsumeLog
    \/ MainUnwind
    \/ MainPanicExit
    \/ MainLoopEnd
    \/ MainLastLog
    \/ MainReturn
    \/ ListenerBind
    \/ ListenerClone
    \/ ListenerCloneErr
    \/ ListenerCloneExit
    \/ ListenerWait
    \/ ListenerRecvOk
    \/ ListenerRecvErr
    \/ \E i \in 1..Len(handlers) : HandlerLog(i)
    \/ \E i \in 1..Len(handlers) : HandlerDecodeSend(i)
    \/ \E k \in 1..Len(pending) : FileAppend(k)

Spec == Init /\ [][Next]_vars

\* startup alone (main up to the spawn, and the bind) on the configurations
\* around the range limits
SpecConfig ==
    InitWith(BoundaryConfigs) /\ [][MainStart \/ MainPanicExit \/ ListenerBind]_vars

\* ------------------------------------------------------------ properties
Lines(f) == { f[k] : k \in 1..Len(f) }
\* the texts of a sequence of channel items
Texts(q) == { q[k].text : k \in 1..Len(q) }
HandlerIds == 1..Len(handlers)
Payload(i) == Slice(handlers[i].buf, handlers[i].amt)
Finished(i) == handlers[i].pc \in {"done", "panicked", "send_failed"}
\* lines of plc.log written by handler thread i
LinesOf(i) == { l \in Lines(file) \cup {lastLine} : l.by = "handler" /\ l.hid = i }

\* C1: once the consumer has handled the k messages it took from the channel,
\* it has logged k message lines, and it never panics.
C1_ConsumerAppendsEveryMessage ==
    /\ pcMain # "setup" => Len(msgLines) = Len(delivered)
    /\ delivered # <<>> => pcMain \notin {"panicking", "panicked"}

\* C2: the handler of a datagram that is not valid UTF-8 has produced no log
\* line and has published nothing.
C2_InvalidDatagramNoLogLine ==
    \A i \in HandlerIds :
        ~Utf8Valid(Payload(i)) =>
            /\ LinesOf(i) = {}
            /\ handlers[i].pc \notin {"done", "send_failed"}

\* C3: once the channel is drained, the consumer has handled what it took and
\* every handler has finished, each valid payload (exactly the amt received
\* bytes) is the text of a line the consumer has logged.
C3_RoundTrip ==
    (queue = <<>> /\ pcMain # "setup" /\ \A i \in HandlerIds : Finished(i)) =>
        \A i \in HandlerIds :
            Utf8Valid(Payload(i)) => Payload(i) \in Lines(msgLines)

\* C4 as stated: a count that reaches T or more has rotated before the next
\* append, so the active file never rests at T bytes or more.
C4_Original_RotatesAtThreshold ==
    logger # NoLogger => FileLen(file) < trigger_size

\* C4 amended: an append that leaves the active file strictly above T bytes
\* rolls exactly once and leaves an empty active file; an append that leaves
\* it at T or less does not roll.
C4_RotatesAboveThreshold ==
    /\ [](logger # NoLogger => FileLen(file) <= trigger_size)
    /\ [][nAppends' = nAppends + 1 =>
            IF FileLen(file) + EncodedLen(lastLine') > trigger_size
            THEN rotations' = rotations + 1 /\ file' = <<>>
            ELSE rotations' = rotations /\ file' = Append(file, lastLine')]_vars

\* C4 witness: after a rotation the active file again holds exactly T bytes.
C4_Witness ==
    /\ logger # NoLogger
    /\ rotations >= 1
    /\ FileLen(file) = trigger_size

\* the k most recent of n rolled files, most recent first
Recent(n, k) == [j \in 1..Min(n, k) |-> n + 1 - j]

\* C5: at most log_history_to_keep archives exist; after n rotations they are
\* the min(n, K) most recent rolled files, index 1 the most recent, so after
\* K+1 rotations exactly K exist and the first rolled file is gone.
C5_Retention ==
    logger # NoLogger =>
        /\ Len(archives) <= roller_count
        /\ archives = Recent(rotations, roller_count)
        /\ (rotations >= roller_count + 1 =>
                /\ Len(archives) = roller_count
                /\ \A j \in 1..Len(archives) : archives[j] # 1)

\* C5 witness: K = 2 and K + 1 = 3 rotations have happened.
C5_Witness ==
    /\ logger # NoLogger
    /\ roller_count = 2
    /\ rotations = roller_count + 1

\* C6: a receive error takes the listener from the receive step back to the
\* top of its loop and leaves the process running; from there it can go on.
C6_RecvErrorContinues ==
    /\ [][nRecvErr' > nRecvErr =>
            /\ AtRecv /\ lpc' = "clone"
            /\ proc' = "running"
            /\ UNCHANGED << handlers, queue, pcMain >>]_vars
    /\ []((Running /\ lpc \in {"clone", "try_clone"}) => ENABLED Listener)

\* C6 witness: a datagram received after a receive error has been dispatched.
C6_Witness ==
    \E i \in HandlerIds : handlers[i].afterErr /\ handlers[i].pc # "spawned"

\* C7: while the process runs, the listener's next step is enabled whatever
\* the handlers are doing; a datagram can be received with handlers unfinished.
C7_ListenerNeverWaits ==
    /\ (Running /\ lpc \in {"clone", "try_clone"}) => ENABLED Listener
    /\ (Running /\ lpc = "recv" /\ ~Busy("listener", 0)
            /\ Len(handlers) < MaxDatagrams) =>
            ENABLED ListenerRecvOk

\* C7 witness: the first handler has not even started, a second datagram has
\* been received since and the listener is at the receive step again.
C7_Witness ==
    /\ Running
    /\ Len(handlers) >= 2
    /\ handlers[1].pc = "spawned"
    /\ lpc = "recv"

\* C8: every line appended to plc.log after the startup banner was appended
\* by the consumer (main) thread while handling a message.
C8_OnlyConsumerWrites ==
    /\ \A l \in Lines(file) : l.by = "main"
    /\ nAppends > 0 => lastLine.by = "main"

\* C9: once the bind has failed (its last error line is written) the process
\* has exited with status 1, the listener never entered its loop, nothing was
\* received, and no further step (no retry) is possible.
C9_BindFailureIsFatal ==
    (nAppends > 0 /\ lastLine.kind = "bind_hint") =>
        /\ proc = "exited" /\ exitCode = 1
        /\ lpc = "bind_failed"
        /\ handlers = <<>> /\ nRecvErr = 0
        /\ ~ENABLED Next

\* C9 witness: the bind has failed.
C9_Witness == lpc = "bind_failed" /\ lastLine.kind = "bind_hint"

\* the ranges of section 3 of the specification
InRanges(c) ==
    /\ c.exists
    /\ Len(c.listening_port) = 1 /\ Len(c.log_max_size_mb) = 1
    /\ Len(c.log_history_to_keep) = 1
    /\ c.listening_port[1] >= 0 /\ c.listening_port[1] <= 65535
    /\ c.log_max_size_mb[1] >= 1 /\ c.log_max_size_mb[1] <= 100
    /\ c.log_history_to_keep[1] >= 0 /\ c.log_history_to_keep[1] <= 1000

\* C10: the logger is set up and the listener spawned only for a
\* configuration within the ranges; any other configuration leaves the process
\* with no logger, no listener and nothing logged, and ends it with a non-zero
\* exit status.
C10_ConfigValidation ==
    /\ (logger # NoLogger \/ lpc # "unspawned") => InRanges(cfg)
    /\ ~InRanges(cfg) =>
          /\ logger = NoLogger /\ lpc = "unspawned" /\ nAppends = 0
          /\ pcMain \in {"start", "panicked"}
          /\ IF Running
             THEN (ENABLED MainStart \/ ENABLED MainPanicExit) /\ ~ENABLED Listener
             ELSE exitCode \in {1, 101}

\* C10 witness: a configuration with one key just out of range was rejected.
C10_Witness ==
    /\ proc = "exited" /\ exitCode = 1 /\ lpc = "unspawned"
    /\ cfg.exists
    /\ cfg.log_history_to_keep = <<1001>>
    /\ cfg.listening_port = <<65535>>
    /\ cfg.log_max_size_mb = <<100>>

\* C11: the consumer's reconfigure for a message installs the message
\* template and does nothing else: the consumer goes on in its loop, and the
\* active file, its byte count and the archives are as before.
C11_ReconfigureSwapsTemplate ==
    [][(pcMain = "setup" /\ pcMain' # "setup") =>
          /\ logger' = LOG_PATTERN_PLC
          /\ pcMain' = "consume"
          /\ sink' = sink]_vars

\* logger_setup applied once, and applied twice in succession, with plc.log
\* openable
SetupOnce(lg, p) == logger_setup(lg, p, TRUE)
SetupTwice(lg, p) ==
    IF SetupOnce(lg, p).panicked THEN SetupOnce(lg, p)
    ELSE logger_setup(SetupOnce(lg, p).logger, p, TRUE)

\* C12: from the logger of any reachable state, reconfiguring twice in
\* succession with the same template gives the same logger, and the same
\* outcome, as reconfiguring once.
C12_ReconfigureIdempotent ==
    \A p \in {LOG_PATTERN, LOG_PATTERN_PLC} :
        SetupTwice(logger, p) = SetupOnce(logger, p)

\* C13: the lines reach plc.log in the order in which they reached stdout:
\* every line appended to the file is the oldest line on stdout that is not
\* yet in the file.
C13_ConsoleMirrorsFile ==
    [][nAppends' > nAppends =>
          IF pending' = pending THEN pending = <<>>
          ELSE pending # <<>> /\ lastLine' = Head(pending)
                  /\ pending' = Tail(pending)]_vars

\* C14: once the consumer has handled what it took, the message lines it has
\* written are the texts of the messages the channel delivered, in delivery
\* order.
C14_LinesInDeliveryOrder ==
    pcMain # "setup" => msgLines = [k \in 1..Len(delivered) |-> delivered[k].text]

\* C15: a handler that has reached its send can take that step whatever the
\* number of messages already queued and wherever the consumer is, and the
\* consumer's receive step is possible only while the queue is non-empty.
C15_ChannelNeverBlocks ==
    /\ \A i \in HandlerIds :
          (Running /\ handlers[i].pc = "decode" /\ ~Busy("handler", i)) =>
              ENABLED HandlerDecodeSend(i)
    /\ (ENABLED Consume) => queue # <<>>

\* C15 witness: a handler with a valid payload is at its send while another
\* message is still queued, not yet taken by the consumer.
C15_Witness ==
    /\ Running /\ rxAlive /\ queue # <<>>
    /\ \E i \in HandlerIds :
         /\ handlers[i].pc = "decode" /\ ~Busy("handler", i)
         /\ Utf8Valid(Payload(i))

\* C16: a handler whose publish failed has produced no log line for its
\* datagram other than the record of the error.
C16_SendFailureNoLogLine ==
    \A i \in HandlerIds :
        handlers[i].pc = "send_failed" =>
            \A l \in LinesOf(i) : l.kind = "send_err"

\* C17: with a retention count of 0 there is no archive in any state, and
\* every rotation leaves no archive; the append that rotates leaves an empty
\* active file of 0 bytes.
C17_ZeroRetention ==
    /\ []((logger # NoLogger /\ roller_count = 0) => archives = <<>>)
    /\ [][(logger # NoLogger /\ roller_count = 0 /\ rotations' > rotations) =>
            /\ archives' = <<>>
            /\ nAppends' = nAppends + 1 => (file' = <<>> /\ FileLen(file') = 0)]_vars

\* C17 witness: retention 0 and two rotations have happened.
C17_Witness ==
    /\ logger # NoLogger
    /\ roller_count = 0
    /\ rotations >= 2

\* C18 as stated: every message on the channel, and every message the
\* consumer received, holds a text and the sender's address.
C18_Original_TextAndAddress ==
    \A m \in Lines(queue) \cup Lines(delivered) :
        DOMAIN m = {"text", "src"}

\* C18 amended: every message on the channel, and every message the consumer
\* received, is the decoded text of a handler's datagram and nothing else.
C18_MessageIsTextOnly ==
    \A m \in Lines(queue) \cup Lines(delivered) :
        /\ DOMAIN m = {"text"}
        /\ \E i \in HandlerIds :
             handlers[i].pc = "done" /\ m.text = Payload(i)

\* C18 witness: the consumer has received a message.
C18_Witness == delivered # <<>> /\ Utf8Valid(delivered[1].text)

\* handlers that have published
Published == { i \in HandlerIds : handlers[i].pc = "done" }

\* C19: the messages ever published are as many as the handlers that have
\* published, one each, so at most as many as the datagrams received; the
\* message lines written are at most as many as the messages delivered; a
\* step adds at most one handler and at most one message.
C19_AtMostOnePerDatagram ==
    /\ [](/\ Len(queue) + Len(delivered) = Cardinality(Published)
          /\ Cardinality(Published) <= Len(handlers)
          /\ Len(msgLines) <= Len(delivered))
    /\ [][/\ Len(handlers') <= Len(handlers) + 1
          /\ Len(queue') + Len(delivered') <= Len(queue) + Len(delivered) + 1
          /\ \A i \in HandlerIds : handlers[i].pc = "done" => handlers'[i].pc = "done"]_vars

\* C19 witness: every received datagram has been published, one message each.
C19_Witness ==
    /\ Len(handlers) >= 2
    /\ Len(queue) + Len(delivered) = Len(handlers)

\* C20: every iteration duplicates the socket before it receives; once a
\* duplication has failed the listener receives nothing more and its one
\* further step ends the process with status 1, after which no step of any
\* thread is possible: what is queued stays unwritten.
C20_CloneFailureIsFatal ==
    /\ [](lpc = "clone_failed" =>
            /\ proc = "exited" /\ exitCode = 1
            /\ ~ENABLED Next)
    /\ []((Running /\ lpc = "clone_err" /\ ~Busy("listener", 0)) =>
            ENABLED ListenerCloneExit)
    /\ [][/\ (lpc' = "recv" /\ lpc # "recv") => lpc = "try_clone"
          /\ (lpc' = "try_clone" /\ lpc # "try_clone") => lpc = "clone"
          /\ (lpc = "try_clone" /\ lpc' # lpc) => lpc' \in {"recv", "clone_err"}
          /\ (lpc = "clone_err" /\ lpc' # lpc) =>
                (lpc' = "clone_failed" /\ proc' = "exited" /\ exitCode' = 1)
          /\ lpc \in {"clone_err", "clone_failed"} =>
                (Len(handlers') = Len(handlers) /\ nRecvErr' = nRecvErr)]_vars

\* C20 witness: the duplication failed in a later iteration, with a message
\* still queued.
C20_Witness ==
    /\ lpc = "clone_failed"
    /\ Len(handlers) >= 1
    /\ queue # <<>>

====
